---- MODULE Spec2Model ----
(***************************************************************************)
(* csv-normalizer: the normalization pipeline of app/normalize.py          *)
(* (normalize_encoding_to_utf8_bom, normalize_csv_bytes) and the HTTP      *)
(* handlers of app/main.py, as a state machine.                            *)
(*                                                                         *)
(* Bytes are integers 0..255 and text is a sequence of Unicode code        *)
(* points.  A negative element -c stands for a run of field_size_limit+1   *)
(* copies of the ASCII byte (or character) c: it is how an input holding a *)
(* field longer than the csv module's field size limit is written down     *)
(* without enumerating 131073 elements.                                    *)
(*                                                                         *)
(* Library calls are modelled by what they do:                             *)
(*   bytes.decode / str.encode  -> Decode, Utf8Encode                      *)
(*   csv.reader / csv.writer    -> CsvRead, CsvWrite (CPython Modules/_csv.c) *)
(*   base64.b64encode           -> B64Encode                               *)
(*   hashlib.sha256             -> an injective tag over the bytes         *)
(*   charset_normalizer.from_bytes(raw).best() and csv.Sniffer().sniff     *)
(*       are heuristics: each is an unknown but fixed function of its      *)
(*       argument, drawn from the answers the library can give and         *)
(*       remembered in detectMemo / sniffMemo.                             *)
(***************************************************************************)
EXTENDS Integers, Sequences, FiniteSets, TLC

\* ---------------------------------------------------------------- bounds
MaxLen == 3
MaxConcLen == 2

\* ------------------------------------------------------ program constants
LF == 10
CR == 13
QUOTECHAR == 34
COMMA == 44
SEMICOLON == 59
TAB == 9
PIPE == 124
LETTER_A == 97
BOM_CHAR == 65279
REPLACEMENT_CHAR == 65533
field_size_limit == 131072
SAMPLE_SIZE == 4096

None == "None"
BOM == <<239, 187, 191>>

\* ------------------------------------------------------------ run elements
IsRun(x) == x < 0
BigRun == 0 - LETTER_A
Weight(x) == IF IsRun(x) THEN field_size_limit + 1 ELSE 1

StartsWith(s, p) == Len(s) >= Len(p) /\ SubSeq(s, 1, Len(p)) = p
Drop(s, n) == SubSeq(s, n + 1, Len(s))

\* ------------------------------------------------------------------ codecs
IsCont(b, i) == i <= Len(b) /\ b[i] >= 128 /\ b[i] <= 191
InRange(b, i, lo, hi) == i <= Len(b) /\ b[i] >= lo /\ b[i] <= hi
Bad(n) == [n |-> n, err |-> TRUE, cp |-> REPLACEMENT_CHAR]
Good(n, cp) == [n |-> n, err |-> FALSE, cp |-> cp]

\* One step of CPython's UTF-8 decoder at position i: the number of bytes it
\* consumes and the code point, or an error covering the maximal invalid prefix.
Utf8Step(b, i) ==
    LET c == b[i] IN
    IF c < 128 THEN Good(1, c)
    ELSE IF c >= 194 /\ c <= 223 THEN
        IF IsCont(b, i + 1) THEN Good(2, (c - 192) * 64 + (b[i + 1] - 128))
        ELSE Bad(1)
    ELSE IF c >= 224 /\ c <= 239 THEN
        LET lo == IF c = 224 THEN 160 ELSE 128
            hi == IF c = 237 THEN 159 ELSE 191
        IN  IF ~InRange(b, i + 1, lo, hi) THEN Bad(1)
            ELSE IF ~IsCont(b, i + 2) THEN Bad(2)
            ELSE Good(3, (c - 224) * 4096 + (b[i + 1] - 128) * 64 + (b[i + 2] - 128))
    ELSE IF c >= 240 /\ c <= 244 THEN
        LET lo == IF c = 240 THEN 144 ELSE 128
            hi == IF c = 244 THEN 143 ELSE 191
        IN  IF ~InRange(b, i + 1, lo, hi) THEN Bad(1)
            ELSE IF ~IsCont(b, i + 2) THEN Bad(2)
            ELSE IF ~IsCont(b, i + 3) THEN Bad(3)
            ELSE Good(4, (c - 240) * 262144 + (b[i + 1] - 128) * 4096
                          + (b[i + 2] - 128) * 64 + (b[i + 3] - 128))
    ELSE Bad(1)

Failed == [ok |-> FALSE, text |-> <<>>]

RECURSIVE Utf8From(_, _, _, _)
Utf8From(b, i, replace, acc) ==
    IF i > Len(b) THEN [ok |-> TRUE, text |-> acc]
    ELSE LET s == Utf8Step(b, i) IN
         IF s.err /\ ~replace THEN Failed
         ELSE Utf8From(b, i + s.n, replace, Append(acc, s.cp))

Utf8Decode(b, replace) == Utf8From(b, 1, replace, <<>>)

AsciiDecode(b, replace) ==
    IF \E i \in 1..Len(b) : b[i] >= 128
    THEN IF replace
         THEN [ok |-> TRUE,
               text |-> [i \in 1..Len(b) |-> IF b[i] >= 128 THEN REPLACEMENT_CHAR ELSE b[i]]]
         ELSE Failed
    ELSE [ok |-> TRUE, text |-> b]

\* raw.decode(encoding) / raw.decode(encoding, errors="replace")
Decode(b, encoding, replace) ==
    CASE encoding \in {"utf-8", "utf_8"} -> Utf8Decode(b, replace)
      [] encoding = "utf-8-sig" ->
            IF StartsWith(b, BOM) THEN Utf8Decode(Drop(b, 3), replace)
            ELSE Utf8Decode(b, replace)
      [] encoding = "ascii" -> AsciiDecode(b, replace)
      [] encoding = "latin_1" -> [ok |-> TRUE, text |-> b]

Utf8Bytes(cp) ==
    IF cp < 128 THEN <<cp>>
    ELSE IF cp < 2048 THEN <<192 + (cp \div 64), 128 + (cp % 64)>>
    ELSE IF cp < 65536
         THEN <<224 + (cp \div 4096), 128 + ((cp \div 64) % 64), 128 + (cp % 64)>>
    ELSE <<240 + (cp \div 262144), 128 + ((cp \div 4096) % 64),
           128 + ((cp \div 64) % 64), 128 + (cp % 64)>>

RECURSIVE Utf8Encode(_)
Utf8Encode(t) == IF t = <<>> THEN <<>> ELSE Utf8Bytes(Head(t)) \o Utf8Encode(Tail(t))

\* text.encode("utf-8-sig")
EncodeUtf8Sig(t) == BOM \o Utf8Encode(t)

\* ---------------------------------------------------------------- newlines
\* text.count(c), text.count("\r\n")
CountChar(t, c) == Cardinality({i \in 1..Len(t) : t[i] = c})
CountCRLF(t) == Cardinality({i \in 1..(Len(t) - 1) : t[i] = CR /\ t[i + 1] = LF})

\* text.replace("\r\n", "\n")
RECURSIVE ReplaceCRLF(_)
ReplaceCRLF(t) ==
    IF t = <<>> THEN <<>>
    ELSE IF Len(t) >= 2 /\ t[1] = CR /\ t[2] = LF THEN <<LF>> \o ReplaceCRLF(Drop(t, 2))
    ELSE <<Head(t)>> \o ReplaceCRLF(Tail(t))

\* text.replace("\r", "\n")
ReplaceCR(t) == [i \in 1..Len(t) |-> IF t[i] = CR THEN LF ELSE t[i]]

\* --------------------------------------------------------------- csv.reader
\* The parser of CPython's Modules/_csv.c under the default ("excel") dialect
\* with the given delimiter: quotechar '"', doublequote, no escapechar, not
\* strict.  p is the reader object: its state, the field being collected, the
\* fields of the record being collected, the records returned so far.
NewParser == [state |-> "START_RECORD", field |-> <<>>, fields |-> <<>>,
              rows |-> <<>>, err |-> FALSE]

\* parse_add_char: _csv.Error once the field holds field_size_limit characters.
AddChar(p, c, next) ==
    IF IsRun(c) \/ Len(p.field) >= field_size_limit
    THEN [p EXCEPT !.err = TRUE]
    ELSE [p EXCEPT !.field = Append(@, c), !.state = next]

\* parse_save_field
SaveField(p, next) ==
    [p EXCEPT !.fields = Append(@, p.field), !.field = <<>>, !.state = next]

IsNewline(c) == c = LF \/ c = CR

StartField(p, c, d) ==
    IF IsNewline(c) THEN SaveField(p, "EAT_CRNL")
    ELSE IF c = QUOTECHAR THEN [p EXCEPT !.state = "IN_QUOTED_FIELD"]
    ELSE IF c = d THEN SaveField(p, "START_FIELD")
    ELSE AddChar(p, c, "IN_FIELD")

\* parse_process_char for a character of the line
ProcessChar(p, c, d) ==
    CASE p.state = "START_RECORD" ->
            IF IsNewline(c) THEN [p EXCEPT !.state = "EAT_CRNL"] ELSE StartField(p, c, d)
      [] p.state = "START_FIELD" -> StartField(p, c, d)
      [] p.state = "IN_FIELD" ->
            IF IsNewline(c) THEN SaveField(p, "EAT_CRNL")
            ELSE IF c = d THEN SaveField(p, "START_FIELD")
            ELSE AddChar(p, c, "IN_FIELD")
      [] p.state = "IN_QUOTED_FIELD" ->
            IF c = QUOTECHAR THEN [p EXCEPT !.state = "QUOTE_IN_QUOTED_FIELD"]
            ELSE AddChar(p, c, "IN_QUOTED_FIELD")
      [] p.state = "QUOTE_IN_QUOTED_FIELD" ->
            IF c = QUOTECHAR THEN AddChar(p, c, "IN_QUOTED_FIELD")
            ELSE IF c = d THEN SaveField(p, "START_FIELD")
            ELSE IF IsNewline(c) THEN SaveField(p, "EAT_CRNL")
            ELSE AddChar(p, c, "IN_FIELD")
      [] p.state = "EAT_CRNL" ->
            IF IsNewline(c) THEN p ELSE [p EXCEPT !.err = TRUE]

\* parse_process_char for the end of a line, then Reader_iternext's loop test:
\* the record is returned once the parser is back at START_RECORD.
ProcessEol(p) ==
    LET q == CASE p.state \in {"START_FIELD", "IN_FIELD", "QUOTE_IN_QUOTED_FIELD"} ->
                    SaveField(p, "START_RECORD")
               [] p.state = "EAT_CRNL" -> [p EXCEPT !.state = "START_RECORD"]
               [] OTHER -> p
    IN  IF q.state = "START_RECORD"
        THEN [q EXCEPT !.rows = Append(@, q.fields), !.fields = <<>>]
        ELSE q

\* Reader_iternext at the end of the input: an open quoted field is saved and
\* the record returned.
ProcessEof(p) ==
    IF p.state = "IN_QUOTED_FIELD"
    THEN [p EXCEPT !.rows = Append(@, Append(p.fields, p.field)),
                   !.fields = <<>>, !.field = <<>>, !.state = "START_RECORD"]
    ELSE p

\* io.StringIO(text, newline="") yields lines ending after "\n", "\r\n" or "\r".
EndsLine(t, i) == t[i] = LF \/ (t[i] = CR /\ ~(i < Len(t) /\ t[i + 1] = LF)) \/ i = Len(t)

RECURSIVE ReadFrom(_, _, _, _)
ReadFrom(t, i, p, d) ==
    IF p.err THEN p
    ELSE IF i > Len(t) THEN ProcessEof(p)
    ELSE LET q == ProcessChar(p, t[i], d) IN
         IF q.err THEN q
         ELSE ReadFrom(t, i + 1, IF EndsLine(t, i) THEN ProcessEol(q) ELSE q, d)

\* list(csv.reader(io.StringIO(text, newline=""), delimiter=d))
CsvRead(t, d) ==
    LET p == ReadFrom(t, 1, NewParser, d) IN [err |-> p.err, rows |-> p.rows]

\* --------------------------------------------------------------- csv.writer
\* csv.writer(outp, delimiter=",", lineterminator="\n"), QUOTE_MINIMAL.
LINETERMINATOR == <<LF>>

NeedsQuote(f) ==
    \E i \in 1..Len(f) :
        f[i] = COMMA \/ f[i] = QUOTECHAR \/ (\E j \in 1..Len(LINETERMINATOR) : LINETERMINATOR[j] = f[i])

RECURSIVE DoubleQuotes(_)
DoubleQuotes(f) ==
    IF f = <<>> THEN <<>>
    ELSE (IF Head(f) = QUOTECHAR THEN <<QUOTECHAR, QUOTECHAR>> ELSE <<Head(f)>>)
         \o DoubleQuotes(Tail(f))

WriteField(f) ==
    IF NeedsQuote(f) THEN <<QUOTECHAR>> \o DoubleQuotes(f) \o <<QUOTECHAR>> ELSE f

RECURSIVE JoinFields(_)
JoinFields(row) ==
    IF row = <<>> THEN <<>>
    ELSE IF Len(row) = 1 THEN WriteField(row[1])
    ELSE WriteField(row[1]) \o <<COMMA>> \o JoinFields(Tail(row))

\* writer.writerow(row): a record that would be empty although it has a field
\* (one empty string) is written as a quoted empty field.
WriteRow(row) ==
    (IF row = << <<>> >> THEN <<QUOTECHAR, QUOTECHAR>> ELSE JoinFields(row)) \o LINETERMINATOR

RECURSIVE CsvWrite(_)
CsvWrite(rows) == IF rows = <<>> THEN <<>> ELSE WriteRow(Head(rows)) \o CsvWrite(Tail(rows))

\* ------------------------------------------------------- base64 and sha256
\* base64.b64encode: 3 bytes give 4 sextets; the result is written as the
\* sextets' indices into the base64 alphabet, 64 standing for the padding "=".
RECURSIVE B64Encode(_)
B64Encode(b) ==
    IF b = <<>> THEN <<>>
    ELSE IF Len(b) = 1 THEN <<b[1] \div 4, (b[1] % 4) * 16, 64, 64>>
    ELSE IF Len(b) = 2
         THEN <<b[1] \div 4, (b[1] % 4) * 16 + (b[2] \div 16), (b[2] % 16) * 4, 64>>
    ELSE <<b[1] \div 4, (b[1] % 4) * 16 + (b[2] \div 16),
           (b[2] % 16) * 4 + (b[3] \div 64), b[3] % 64>> \o B64Encode(Drop(b, 3))

\* base64.b64decode
RECURSIVE B64Decode(_)
B64Decode(e) ==
    IF e = <<>> THEN <<>>
    ELSE LET b1 == e[1] * 4 + (e[2] \div 16)
             b2 == (e[2] % 16) * 16 + (e[3] \div 4)
             b3 == (e[3] % 4) * 64 + e[4]
         IN  IF e[3] = 64 THEN <<b1>>
             ELSE IF e[4] = 64 THEN <<b1, b2>>
             ELSE <<b1, b2, b3>> \o B64Decode(Drop(e, 4))

\* hashlib.sha256(data).hexdigest(): collision-free over the inputs at hand,
\* so the digest is written as a tag over the bytes digested.
_sha256_hex(data) == [sha256_of |-> data]

\* str(n)
RECURSIVE Str(_)
Str(n) == IF n < 10 THEN <<48 + n>> ELSE Str(n \div 10) \o <<48 + (n % 10)>>

\* ------------------------------------------------------------ EncodingStage
Encodings == {"ascii", "utf_8", "latin_1"}

\* The answers from_bytes(raw).best() can give: an encoding name, or None for
\* no match.  The detector is a heuristic and the pipeline is written not to
\* trust it, so any answer is allowed, with two exceptions: input carrying the
\* UTF-8 signature and decoding as UTF-8 is reported as utf_8 (the detector
\* checks the signature first), and pure ASCII input is reported as ascii or
\* utf_8 (which decode it alike).
DetectAnswers(b) ==
    IF StartsWith(b, BOM) /\ Utf8Decode(b, FALSE).ok THEN {"utf_8"}
    ELSE IF \A k \in 1..Len(b) : b[k] < 128 THEN {"ascii", "utf_8"}
    ELSE Encodings \cup {None}

\* decode_used.lower().replace("-", "_") over the names in use
CodecKey(name) == IF name = "utf-8" THEN "utf_8" ELSE name

\* Mutant: the signature-aware variant is never chosen.
DecodeUsedNoSig(b, det) == IF det = None THEN "utf-8" ELSE det

\* decode_used before the first decode
DecodeUsed(b, det) ==
    LET decode_used == IF det = None THEN "utf-8" ELSE det IN
    IF StartsWith(b, BOM) /\ CodecKey(decode_used) \in {"utf_8", "utf8"}
    THEN "utf-8-sig"
    ELSE decode_used

\* The try/except chain: primary decode, plain UTF-8, then replacement.
DecodeChain(b, decode_used) ==
    LET first == Decode(b, decode_used, FALSE)
        second == Decode(b, "utf-8", FALSE)
    IN  IF first.ok
        THEN [text |-> first.text, decode_used |-> decode_used, decode_fallback |-> FALSE]
        ELSE IF second.ok
        THEN [text |-> second.text, decode_used |-> "utf-8", decode_fallback |-> TRUE]
        ELSE [text |-> Decode(b, decode_used, TRUE).text, decode_used |-> decode_used,
              decode_fallback |-> TRUE]

\* ------------------------------------------------------------- NewlineStage
NewlineCounts(t) ==
    [crlf |-> CountCRLF(t), cr |-> CountChar(t, CR) - CountCRLF(t), lf |-> CountChar(t, LF)]

\* Mutant: a bare CR is left in place.
NormalizeNewlinesCrlfOnly(t) == ReplaceCRLF(t)

NormalizeNewlines(t) == ReplaceCR(ReplaceCRLF(t))

NewlineCountsAfter(t) ==
    [crlf |-> CountCRLF(t), cr |-> CountChar(t, CR), lf |-> CountChar(t, LF)]

\* ----------------------------------------------------------- DelimiterStage
Delimiters == {COMMA, SEMICOLON, TAB, PIPE}
SniffFailed == 0 - 1

\* text[:4096].  A run that the cut falls into is kept as a run: of the sample
\* only the characters occurring in it bear on the answers below.
RECURSIVE Take(_, _)
Take(t, room) ==
    IF t = <<>> \/ room <= 0 THEN <<>>
    ELSE <<Head(t)>> \o Take(Tail(t), room - Weight(Head(t)))

Sample(t) == Take(t, SAMPLE_SIZE)

\* The answers csv.Sniffer().sniff(sample, delimiters=[...]) can give: one of
\* the candidates that occurs in the sample, or a csv.Error.
SniffAnswers(sample) ==
    {d \in Delimiters : \E k \in 1..Len(sample) : sample[k] = d} \cup {SniffFailed}

\* The delimiter the stage's reader is built with
RewriteReaderDelimiter(detected_delim) == COMMA

\* The re-serialization done when the detected delimiter is not comma
RewriteDelimiter(t, detected_delim) ==
    LET r == CsvRead(t, RewriteReaderDelimiter(detected_delim)) IN
    [err |-> r.err, text |-> IF r.err THEN <<>> ELSE CsvWrite(r.rows)]

\* ------------------------------------------------------ RectangularizeStage
WidthNone == 0 - 1

\* The delimiter the final reader is built with
RectReaderDelimiter(detected_delim) == detected_delim

\* Mutant: the padding stops one field short.
PadRowOneShort(row, width_expected) ==
    row \o [k \in 1..(width_expected - Len(row) - 1) |-> <<>>]

\* row + [""] * (width_expected - orig_len)
PadRow(row, width_expected) ==
    row \o [k \in 1..(width_expected - Len(row)) |-> <<>>]

\* Mutant: the entry carries enumerate's 0-based index.
EntryRowZeroBased(i) == i

\* The row number an entry carries, for enumerate's index i
EntryRow(i) == i + 1

ShortEntry(i, row, width_expected) ==
    [row |-> EntryRow(i), column |-> None, issue |-> "row_too_short",
     value |-> Str(Len(row)), action |-> <<"padded_to_", Str(width_expected)>>]

LongEntry(i, row, width_expected) ==
    [row |-> EntryRow(i), column |-> None, issue |-> "row_too_long",
     value |-> Str(Len(row)), action |-> <<"expected_", Str(width_expected)>>]

Max(a, b) == IF a >= b THEN a ELSE b

NewScan(rows) ==
    [width_expected |-> IF rows # <<>> THEN Len(rows[1]) ELSE WidthNone,
     width_short_rows |-> 0, width_long_rows |-> 0, total_rows |-> 0,
     total_cols_max |-> 0, warnings |-> <<>>, errors |-> <<>>, written |-> <<>>]

\* Mutant: an over-wide row is cut to width_expected fields on its way out.
ScanRowTruncating(acc, i, row) ==
    LET w == IF acc.width_expected = WidthNone THEN Len(row) ELSE acc.width_expected
        base == [acc EXCEPT !.width_expected = w,
                            !.total_rows = @ + 1,
                            !.total_cols_max = Max(@, Len(row))]
    IN  IF Len(row) < w
        THEN [base EXCEPT !.width_short_rows = @ + 1,
                          !.warnings = Append(@, ShortEntry(i, row, w)),
                          !.written = Append(@, PadRow(row, w))]
        ELSE IF Len(row) > w
        THEN [base EXCEPT !.width_long_rows = @ + 1,
                          !.errors = Append(@, LongEntry(i, row, w)),
                          !.written = Append(@, SubSeq(row, 1, w))]
        ELSE [base EXCEPT !.written = Append(@, row)]

\* One pass of the loop over enumerate(rows); k = i + 1 indexes the sequence.
ScanRow(acc, i, row) ==
    LET w == IF acc.width_expected = WidthNone THEN Len(row) ELSE acc.width_expected
        base == [acc EXCEPT !.width_expected = w,
                            !.total_rows = @ + 1,
                            !.total_cols_max = Max(@, Len(row))]
    IN  IF Len(row) < w
        THEN [base EXCEPT !.width_short_rows = @ + 1,
                          !.warnings = Append(@, ShortEntry(i, row, w)),
                          !.written = Append(@, PadRow(row, w))]
        ELSE IF Len(row) > w
        THEN [base EXCEPT !.width_long_rows = @ + 1,
                          !.errors = Append(@, LongEntry(i, row, w)),
                          !.written = Append(@, row)]
        ELSE [base EXCEPT !.written = Append(@, row)]

RECURSIVE ScanFrom(_, _, _)
ScanFrom(rows, k, acc) ==
    IF k > Len(rows) THEN acc ELSE ScanFrom(rows, k + 1, ScanRow(acc, k - 1, rows[k]))

Rectangularize(rows) == ScanFrom(rows, 1, NewScan(rows))

\* ------------------------------------------------------------------- inputs
\* Byte inputs: CSV-shaped ASCII (with a CR, both delimiters in play, a quote
\* and an over-long run), and bytes that exercise the codecs (Latin-1 e-acute
\* and the two bytes of its UTF-8 form) behind no, one or two signatures.
CsvBytes == {LETTER_A, COMMA, SEMICOLON, QUOTECHAR, LF, CR, BigRun}
EncBytes == {LETTER_A, 233, 195, 169}

SeqsUpTo(S, n) == UNION {[1..k -> S] : k \in 0..n}

\* The inputs of the documented examples, "a" for every letter and digit:
\* name,city / Paul,Montreal in Latin-1; a;b;c / 1;2;3; a,b,c / 1,2 / 3,4,5,6;
\* and a quoted field holding the detected delimiter, "a;a";a.
Examples ==
    { <<97, 44, 97, 10, 97, 44, 233, 10>>,
      <<97, 59, 97, 59, 97, 10, 97, 59, 97, 59, 97, 10>>,
      <<97, 44, 97, 44, 97, 10, 97, 44, 97, 10, 97, 44, 97, 44, 97, 44, 97, 10>>,
      <<34, 97, 59, 97, 34, 59, 97, 10>> }

Inputs ==
    Examples \cup SeqsUpTo(CsvBytes, MaxLen)
        \cup {sig \o b : sig \in {<<>>, BOM, BOM \o BOM}, b \in SeqsUpTo(EncBytes, MaxLen)}

ConcInputs == SeqsUpTo(CsvBytes \cup {233}, MaxConcLen)

\* "test.csv", "TEST.CSV", "a.txt", "csv", ""
Filenames ==
    { <<116, 101, 115, 116, 46, 99, 115, 118>>, <<84, 69, 83, 84, 46, 67, 83, 86>>,
      <<97, 46, 116, 120, 116>>, <<99, 115, 118>>, <<>> }

Invocations == {1, 2}

\* -------------------------------------------------------------------- state
VARIABLES
    pc,              \* where each invocation of normalize_csv_bytes stands
    raw,             \* its argument
    text,            \* its local `text`
    encoding,        \* detected, decode_used, decode_fallback
    newlines,        \* nl_before, nl_after, changed
    delimiter,       \* detected_delim, sniffed, delim_changed
    row_width,       \* width_expected and the counters of the row scan
    scan,            \* the final reader's delimiter, `rows`, the rows written
    stage_text,      \* history: the text as it left the decode and newline steps
    warnings,        \* its local `warnings`
    errors,          \* its local `errors`
    normalized,      \* its local `normalized`
    result,          \* the dict it returned
    detectMemo,      \* the detector's answers so far: <<raw, answer>>
    sniffMemo,       \* the sniffer's answers so far: <<sample, answer>>
    request,         \* the HTTP request being served
    response         \* and the answer to it

pipeVars == <<pc, raw, text, encoding, newlines, delimiter, row_width, scan, stage_text,
              warnings, errors, normalized, result, detectMemo, sniffMemo>>
httpVars == <<request, response>>
vars == <<pipeVars, httpVars>>

NoEncoding == [detected |-> None, decode_used |-> None, decode_fallback |-> FALSE]
NoCounts == [crlf |-> 0, cr |-> 0, lf |-> 0]
NoNewlines == [before |-> NoCounts, after |-> NoCounts, changed |-> FALSE]
NoDelimiter == [detected |-> COMMA, sniffed |-> FALSE, changed |-> FALSE]
NoRowWidth == [expected_columns |-> WidthNone, short_rows_padded |-> 0,
               long_rows_errors |-> 0, total_rows |-> 0, max_columns_seen |-> 0]
NoScan == [reader_delimiter |-> COMMA, rows |-> <<>>, written |-> <<>>]
NoRequest == [method |-> None, path |-> None, filename |-> <<>>, content |-> <<>>]
NoResponse == [status |-> None]
NoStageText == [decoded |-> <<>>, newlines |-> <<>>, delimiter |-> <<>>]

Init ==
    /\ pc = [i \in Invocations |-> "idle"]
    /\ raw = [i \in Invocations |-> <<>>]
    /\ text = [i \in Invocations |-> <<>>]
    /\ encoding = [i \in Invocations |-> NoEncoding]
    /\ newlines = [i \in Invocations |-> NoNewlines]
    /\ delimiter = [i \in Invocations |-> NoDelimiter]
    /\ row_width = [i \in Invocations |-> NoRowWidth]
    /\ scan = [i \in Invocations |-> NoScan]
    /\ stage_text = [i \in Invocations |-> NoStageText]
    /\ warnings = [i \in Invocations |-> <<>>]
    /\ errors = [i \in Invocations |-> <<>>]
    /\ normalized = [i \in Invocations |-> <<>>]
    /\ result = [i \in Invocations |-> None]
    /\ detectMemo = {}
    /\ sniffMemo = {}
    /\ request = NoRequest
    /\ response = NoResponse

\* A library heuristic is a function: asked the same thing, it answers the same.
Consistent(memo, arg, answer) == \A m \in memo : m[1] = arg => m[2] = answer

\* ----------------------------------------------------------------- pipeline
\* Mutant: the list is one object shared by the invocations, so an
\* invocation starts from what the other has appended.
SharedList(lists, i) == lists[3 - i]

\* warnings: list[dict] = [] and errors: list[dict] = [], the invocation's own
FreshList(lists, i) == <<>>

\* normalize_csv_bytes(b) is entered by invocation i.
Submit(i, b) ==
    /\ pc[i] = "idle"
    /\ pc' = [pc EXCEPT ![i] = "encoding"]
    /\ raw' = [raw EXCEPT ![i] = b]
    /\ warnings' = [warnings EXCEPT ![i] = FreshList(warnings, i)]
    /\ errors' = [errors EXCEPT ![i] = FreshList(errors, i)]
    /\ UNCHANGED <<text, encoding, newlines, delimiter, row_width, scan, stage_text,
                   normalized, result, detectMemo, sniffMemo, httpVars>>

\* Encoding detection and the decode with its fallbacks.
EncodingStage(i) ==
    /\ pc[i] = "encoding"
    /\ \E detected \in DetectAnswers(raw[i]) :
        LET d == DecodeChain(raw[i], DecodeUsed(raw[i], detected)) IN
        /\ Consistent(detectMemo, raw[i], detected)
        /\ detectMemo' = detectMemo \cup {<<raw[i], detected>>}
        /\ text' = [text EXCEPT ![i] = d.text]
        /\ encoding' = [encoding EXCEPT ![i] =
                [detected |-> detected, decode_used |-> d.decode_used,
                 decode_fallback |-> d.decode_fallback]]
        /\ stage_text' = [stage_text EXCEPT ![i].decoded = d.text]
    /\ pc' = [pc EXCEPT ![i] = "newlines"]
    /\ UNCHANGED <<raw, newlines, delimiter, row_width, scan, warnings, errors,
                   normalized, result, sniffMemo, httpVars>>

\* Newline normalization: CRLF/CR -> LF.
NewlineStage(i) ==
    /\ pc[i] = "newlines"
    /\ LET nl_before == NewlineCounts(text[i])
           t == NormalizeNewlines(text[i])
           nl_after == NewlineCountsAfter(t)
       IN  /\ text' = [text EXCEPT ![i] = t]
           /\ newlines' = [newlines EXCEPT ![i] =
                   [before |-> nl_before, after |-> nl_after,
                    changed |-> (nl_before.crlf > 0) \/ (nl_before.cr > 0)]]
           /\ stage_text' = [stage_text EXCEPT ![i].newlines = t]
    /\ pc' = [pc EXCEPT ![i] = "delimiter"]
    /\ UNCHANGED <<raw, encoding, delimiter, row_width, scan, warnings, errors,
                   normalized, result, detectMemo, sniffMemo, httpVars>>

\* Delimiter detection and normalization to comma.  The reader's _csv.Error
\* is not caught: it leaves normalize_csv_bytes as an exception.
DelimiterStage(i) ==
    /\ pc[i] = "delimiter"
    /\ \E answer \in SniffAnswers(Sample(text[i])) :
        LET detected_delim == IF answer = SniffFailed THEN COMMA ELSE answer
            delim_changed == detected_delim # COMMA
            rewritten == IF delim_changed THEN RewriteDelimiter(text[i], detected_delim)
                         ELSE [err |-> FALSE, text |-> text[i]]
        IN  /\ Consistent(sniffMemo, Sample(text[i]), answer)
            /\ sniffMemo' = sniffMemo \cup {<<Sample(text[i]), answer>>}
            /\ delimiter' = [delimiter EXCEPT ![i] =
                    [detected |-> detected_delim, sniffed |-> answer # SniffFailed,
                     changed |-> delim_changed]]
            /\ text' = [text EXCEPT ![i] = rewritten.text]
            /\ stage_text' = [stage_text EXCEPT ![i].delimiter = rewritten.text]
            /\ pc' = [pc EXCEPT ![i] = IF rewritten.err THEN "raised" ELSE "rectangularize"]
    /\ UNCHANGED <<raw, encoding, newlines, row_width, scan, warnings, errors,
                   normalized, result, detectMemo, httpVars>>

\* Row width enforcement and the final encode.  Here too the reader's
\* _csv.Error is not caught.
RectangularizeStage(i) ==
    /\ pc[i] = "rectangularize"
    /\ LET d == RectReaderDelimiter(delimiter[i].detected)
           r == CsvRead(text[i], d)
           acc == Rectangularize(r.rows)
           out == CsvWrite(acc.written)
       IN  IF r.err
           THEN /\ pc' = [pc EXCEPT ![i] = "raised"]
                /\ scan' = [scan EXCEPT ![i].reader_delimiter = d]
                /\ UNCHANGED <<text, row_width, warnings, errors, normalized>>
           ELSE /\ pc' = [pc EXCEPT ![i] = "return"]
                /\ scan' = [scan EXCEPT ![i] =
                        [reader_delimiter |-> d, rows |-> r.rows, written |-> acc.written]]
                /\ text' = [text EXCEPT ![i] = out]
                /\ row_width' = [row_width EXCEPT ![i] =
                        [expected_columns |-> acc.width_expected,
                         short_rows_padded |-> acc.width_short_rows,
                         long_rows_errors |-> acc.width_long_rows,
                         total_rows |-> acc.total_rows,
                         max_columns_seen |-> acc.total_cols_max]]
                /\ warnings' = [warnings EXCEPT ![i] = @ \o acc.warnings]
                /\ errors' = [errors EXCEPT ![i] = @ \o acc.errors]
                /\ normalized' = [normalized EXCEPT ![i] = EncodeUtf8Sig(out)]
    /\ UNCHANGED <<raw, encoding, newlines, delimiter, stage_text, result,
                   detectMemo, sniffMemo, httpVars>>

\* The report and the response envelope of normalize_csv_bytes.
Envelope(i) ==
    [normalized_csv |->
        [sha256 |-> _sha256_hex(normalized[i]), encoding |-> "utf-8-sig",
         content_b64 |-> B64Encode(normalized[i])],
     report |->
        [summary |-> [rows |-> None, columns |-> None, warnings |-> Len(warnings[i]),
                      errors |-> Len(errors[i]), deterministic |-> TRUE],
         normalizations |->
            [encoding |-> encoding[i], newlines |-> newlines[i],
             delimiter |-> delimiter[i], row_width |-> row_width[i]],
         warnings |-> warnings[i],
         errors |-> errors[i]]]

Return(i) ==
    /\ pc[i] = "return"
    /\ result' = [result EXCEPT ![i] = Envelope(i)]
    /\ pc' = [pc EXCEPT ![i] = "done"]
    /\ UNCHANGED <<raw, text, encoding, newlines, delimiter, row_width, scan, stage_text,
                   warnings, errors, normalized, detectMemo, sniffMemo, httpVars>>

Stage(i) ==
    \/ EncodingStage(i)
    \/ NewlineStage(i)
    \/ DelimiterStage(i)
    \/ RectangularizeStage(i)
    \/ Return(i)

\* The first run, on any input.
Call == \E b \in Inputs : Submit(1, b)

\* The second run, on the bytes the first one produced.
Rerun == pc[1] = "done" /\ Submit(2, normalized[1])

Next == Call \/ Rerun \/ \E i \in Invocations : Stage(i)

Spec == Init /\ [][Next]_vars

\* Two invocations on the same input, their steps interleaved in any order.
CallConc == \E b \in ConcInputs : Submit(1, b)

CallAgain == pc[1] # "idle" /\ Submit(2, raw[1])

NextConc == CallConc \/ CallAgain \/ \E i \in Invocations : Stage(i)

SpecConc == Init /\ [][NextConc]_vars

\* --------------------------------------------------------------------- HTTP
\* str.lower()
Lower(name) == [k \in 1..Len(name) |-> IF name[k] >= 65 /\ name[k] <= 90 THEN name[k] + 32 ELSE name[k]]

\* str.endswith
EndsWith(name, suffix) ==
    Len(name) >= Len(suffix) /\ SubSeq(name, Len(name) - Len(suffix) + 1, Len(name)) = suffix

DotCsv == <<46, 99, 115, 118>>

\* A request arrives.  The handlers keep nothing between requests, so one
\* request is followed from its arrival to its answer.
Receive ==
    /\ request = NoRequest
    /\ \/ request' = [method |-> "GET", path |-> "/health", filename |-> <<>>,
                      content |-> <<>>]
       \/ \E filename \in Filenames, content \in Inputs :
            request' = [method |-> "POST", path |-> "/normalize", filename |-> filename,
                        content |-> content]
    /\ UNCHANGED <<response, pipeVars>>

\* GET /health
Health ==
    /\ request # NoRequest /\ response = NoResponse
    /\ request.path = "/health"
    /\ response' = [status |-> 200, body |-> [ok |-> TRUE]]
    /\ UNCHANGED <<request, pipeVars>>

\* What POST /normalize answers for an accepted upload
NormalizeBody(content) ==
    [normalized_csv |-> None,
     report |-> [summary |-> [rows |-> None, columns |-> None, warnings |-> 0,
                              errors |-> 0, deterministic |-> TRUE],
                 normalizations |-> <<>>, warnings |-> <<>>, errors |-> <<>>],
     status |-> "not_implemented_yet"]

\* POST /normalize
normalize_csv ==
    /\ request # NoRequest /\ response = NoResponse
    /\ request.path = "/normalize"
    /\ response' =
          IF ~EndsWith(Lower(request.filename), DotCsv)
          THEN [status |-> 422, detail |-> "Only CSV files are supported"]
          ELSE [status |-> 200, body |-> NormalizeBody(request.content)]
    /\ UNCHANGED <<request, pipeVars>>

NextHttp == Receive \/ Health \/ normalize_csv

SpecHttp == Init /\ [][NextHttp]_vars

\* ------------------------------------------------------------------- claims
Returned(i) == pc[i] \in {"return", "done"}
Normalizations(i) == result[i].report.normalizations
OutputText(i) == Decode(normalized[i], "utf-8-sig", FALSE).text
HasField(rows, c) ==
    \E k \in 1..Len(rows) : \E j \in 1..Len(rows[k]) : \E n \in 1..Len(rows[k][j]) :
        rows[k][j][n] = c

C2_DelimiterStageRewrite ==
    \A i \in Invocations :
        pc[i] \in {"rectangularize", "return", "done"} =>
            stage_text[i].delimiter =
                IF delimiter[i].detected # COMMA
                THEN CsvWrite(CsvRead(stage_text[i].newlines, delimiter[i].detected).rows)
                ELSE stage_text[i].newlines

\* C3 as claimed: the reader of the row-width stage is built with comma as its
\* delimiter, whatever delimiter was detected.
C3_FinalParseUsesComma ==
    \A i \in Invocations : Returned(i) => scan[i].reader_delimiter = COMMA

\* C4 as claimed: an upload whose filename ends in ".csv" is answered 200 with
\* a normalized_csv object whose encoding is "utf-8-sig" and whose content_b64
\* decodes to bytes that start with the signature and decode as utf-8-sig to
\* the text of the upload (under the encoding it was written in).
C4_HandlerReturnsNormalizedCsv ==
    (request.path = "/normalize" /\ EndsWith(request.filename, DotCsv)
        /\ response # NoResponse) =>
        /\ response.status = 200
        /\ response.body.normalized_csv # None
        /\ response.body.normalized_csv.encoding = "utf-8-sig"
        /\ LET out == B64Decode(response.body.normalized_csv.content_b64) IN
           /\ StartsWith(out, BOM)
           /\ \E e \in Encodings \cup {"utf-8-sig"} :
                /\ Decode(request.content, e, FALSE).ok
                /\ Decode(out, "utf-8-sig", FALSE).text
                     = CsvWrite(CsvRead(NormalizeNewlines(Decode(request.content, e, FALSE).text),
                                        COMMA).rows)

\* C5: with w the field count of the first parsed row, row k of the output
\* (the returned text parsed as comma-separated CSV) is parsed row k followed by
\* empty fields up to w fields when it was shorter, and parsed row k itself
\* otherwise; so every output row not flagged row_too_long has w fields.
C5_OutputRowShape ==
    \A i \in Invocations :
        Returned(i) =>
            LET rows == scan[i].rows
                w == row_width[i].expected_columns
                out == CsvRead(OutputText(i), COMMA).rows
                flagged == {errors[i][e].row : e \in 1..Len(errors[i])}
            IN  /\ (rows = <<>>) = (w = WidthNone)
                /\ rows # <<>> => w = Len(rows[1])
                /\ Len(out) = Len(rows)
                /\ \A k \in 1..Len(rows) :
                    /\ Len(rows[k]) < w =>
                          /\ Len(out[k]) = w
                          /\ SubSeq(out[k], 1, Len(rows[k])) = rows[k]
                          /\ \A j \in (Len(rows[k]) + 1)..w : out[k][j] = <<>>
                    /\ Len(rows[k]) >= w => out[k] = rows[k]
                    /\ k \notin flagged => Len(out[k]) = w

\* An invocation returned after padding a short row and passing an over-wide one.
C5_Witness ==
    \E i \in Invocations :
        /\ pc[i] = "done"
        /\ row_width[i].short_rows_padded > 0
        /\ row_width[i].long_rows_errors > 0
        /\ row_width[i].max_columns_seen > row_width[i].expected_columns

\* C6: a parsed row shorter than w has exactly one entry, a row_too_short
\* warning with its 1-based index; a longer one exactly one entry, a
\* row_too_long error with its 1-based index; a row of w fields has none;
\* entries are in ascending row order; and the two lists together are as long
\* as the number of rows of the wrong width and as the summary's two counts.
EntriesFor(list, k) == {e \in 1..Len(list) : list[e].row = k}

C7_BomOnce ==
    \A i \in Invocations :
        Returned(i) =>
            /\ StartsWith(normalized[i], BOM)
            /\ (StartsWith(raw[i], BOM) /\ Utf8Decode(raw[i], FALSE).ok) =>
                  CountChar(OutputText(i), BOM_CHAR)
                      = CountChar(Utf8Decode(raw[i], FALSE).text, BOM_CHAR) - 1

\* A first run returned on UTF-8 input with a signature and text behind it.
C7_Witness ==
    /\ pc[1] = "done"
    /\ StartsWith(raw[1], BOM)
    /\ Utf8Decode(raw[1], FALSE).ok
    /\ CountChar(text[1], 233) > 0

\* C8 as claimed: no invocation raises; the decode falls back from decode_used
\* to plain UTF-8 (decode_fallback = true, decode_used = "utf-8") and from
\* there to replacement characters (decode_fallback = true).
C8_Total ==
    \A i \in Invocations :
        /\ pc[i] # "raised"
        /\ pc[i] \notin {"idle", "encoding"} =>
              LET first == DecodeUsed(raw[i], encoding[i].detected) IN
              IF Decode(raw[i], first, FALSE).ok
              THEN /\ ~encoding[i].decode_fallback
                   /\ encoding[i].decode_used = first
                   /\ stage_text[i].decoded = Decode(raw[i], first, FALSE).text
              ELSE IF Decode(raw[i], "utf-8", FALSE).ok
              THEN /\ encoding[i].decode_fallback
                   /\ encoding[i].decode_used = "utf-8"
                   /\ stage_text[i].decoded = Decode(raw[i], "utf-8", FALSE).text
              ELSE /\ encoding[i].decode_fallback
                   /\ stage_text[i].decoded = Decode(raw[i], first, TRUE).text

\* C9: the returned text holds no carriage return, also inside quoted fields,
\* and the newline stage's counts after the rewrite are 0 for crlf and for cr.
C9_NoCarriageReturn ==
    \A i \in Invocations :
        Returned(i) =>
            /\ CountChar(OutputText(i), CR) = 0
            /\ CountChar(text[i], CR) = 0
            /\ newlines[i].after.crlf = 0
            /\ newlines[i].after.cr = 0

\* An invocation returned on input with a bare CR, with a line break inside a
\* quoted field of the output.
C9_Witness ==
    \E i \in Invocations :
        /\ pc[i] = "done"
        /\ newlines[i].before.cr > 0
        /\ HasField(scan[i].written, LF)

====
